---- MODULE Spec2Model ----
(***************************************************************************)
(* Model of the pest-sales scoring pipeline of app.py: load_census_data,   *)
(* id_to_fips, load_weather_data, the two left merges of main,             *)
(* calculate_scores (pandas rank(pct=True), the weighted sum, sklearn's    *)
(* MinMaxScaler) and the state filter of main.                             *)
(*                                                                         *)
(* Numbers are exact rationals (the code computes in IEEE doubles, so the  *)
(* results here are the real-number results, free of rounding).            *)
(* A cell of a table is a triple <<kind, n, d>>:                           *)
(*    <<"num", n, d>>  the number n/d, d > 0, in lowest terms              *)
(*    <<"na", 0, 1>>   missing (NaN / pd.NA)                               *)
(*    <<"inf", 1, 0>>  +infinity (x / 0 with x > 0 in pandas)              *)
(* A string whose length matters is a sequence of one-character strings.   *)
(***************************************************************************)
EXTENDS Integers, Sequences, FiniteSets, TLC

VARIABLES pc, api_rows, precip_csv, temp_csv, census, precip, temp, df, selected, filtered,
          column, ranked, id_str, fips_out

vars == <<pc, api_rows, precip_csv, temp_csv, census, precip, temp, df, selected, filtered,
          column, ranked, id_str, fips_out>>

(***************************************************************************)
(* Bounds of the model.                                                    *)
(***************************************************************************)
\* number of counties in the census response
MaxRows == 2
\* length of a column handed to rank, and the numbers 1..MaxVal in it
MaxLen == 4
MaxVal == 2
\* length of the county code of a weather ID
MaxCodeLen == 4
\* rows of a weather table in the merge specification
MaxWeatherRows == 2

(***************************************************************************)
(* Cells and exact arithmetic with pandas' missing-value rules.            *)
(***************************************************************************)
NA == <<"na", 0, 1>>

INF == <<"inf", 1, 0>>

Abs(x) == IF x < 0 THEN -x ELSE x

RECURSIVE GCD(_, _)
GCD(a, b) == IF b = 0 THEN a ELSE GCD(b, a % b)

\* the number n/d (d # 0) in lowest terms with a positive denominator
Num(n, d) ==
    LET s == IF d < 0 THEN -1 ELSE 1
        g == GCD(Abs(n), Abs(d))
    IN  <<"num", (s * n) \div g, (s * d) \div g>>

IsNA(v) == v[1] = "na"

IsNum(v) == v[1] = "num"

IsInf(v) == v[1] = "inf"

\* a + b on float cells: NaN is absorbing, then +inf
Add(a, b) ==
    IF IsNA(a) \/ IsNA(b) THEN NA
    ELSE IF IsInf(a) \/ IsInf(b) THEN INF
    ELSE Num(a[2] * b[3] + b[2] * a[3], a[3] * b[3])

\* a - b on finite float cells; NaN is absorbing
Sub(a, b) ==
    IF IsNA(a) \/ IsNA(b) THEN NA
    ELSE Num(a[2] * b[3] - b[2] * a[3], a[3] * b[3])

\* a * b on float cells: NaN is absorbing, inf * 0 is NaN
Mul(a, b) ==
    IF IsNA(a) \/ IsNA(b) THEN NA
    ELSE IF IsInf(a) \/ IsInf(b)
         THEN IF (IsNum(a) /\ a[2] = 0) \/ (IsNum(b) /\ b[2] = 0) THEN NA ELSE INF
    ELSE Num(a[2] * b[2], a[3] * b[3])

\* a / b on non-negative finite float cells, as numpy's true_divide: no error
\* is raised, 0/0 is NaN and x/0 with x > 0 is +inf
Div(a, b) ==
    IF IsNA(a) \/ IsNA(b) THEN NA
    ELSE IF b[2] = 0 THEN (IF a[2] = 0 THEN NA ELSE INF)
    ELSE Num(a[2] * b[3], a[3] * b[2])

\* a < b on non-missing cells (+inf is above every number)
Less(a, b) ==
    IF IsInf(a) THEN FALSE
    ELSE IF IsInf(b) THEN TRUE
    ELSE a[2] * b[3] < b[2] * a[3]

Leq(a, b) == a = b \/ Less(a, b)

RECURSIVE SumTo(_, _)
\* lo + (lo+1) + ... + hi
SumTo(lo, hi) == IF lo > hi THEN 0 ELSE hi + SumTo(lo, hi - 1)

(***************************************************************************)
(* pandas Series.rank(pct=True): method 'average', na_option 'keep'.       *)
(***************************************************************************)
\* number of non-missing cells of a column
CountValid(col) == Cardinality({j \in 1..Len(col) : ~IsNA(col[j])})

\* the rank a slip to method='min' would give: the first tied position
RankMinMethod(col, i) ==
    LET below == Cardinality({j \in 1..Len(col) :
                                 ~IsNA(col[j]) /\ Less(col[j], col[i])})
    IN  Num(below + 1, CountValid(col))

\* the average-method rank of cell i: the mean of the positions that the
\* cells equal to col[i] occupy in the ascending sort of the non-missing
\* cells, divided by the number of non-missing cells (pct=True)
RankAverage(col, i) ==
    LET below == Cardinality({j \in 1..Len(col) :
                                 ~IsNA(col[j]) /\ Less(col[j], col[i])})
        equal == Cardinality({j \in 1..Len(col) : col[j] = col[i]})
    IN  Num(SumTo(below + 1, below + equal), equal * CountValid(col))

RankPct(col) ==
    [i \in 1..Len(col) |-> IF IsNA(col[i]) THEN NA ELSE RankAverage(col, i)]

\* the column named c of a table, as a sequence of cells
Column(table, c) == [i \in 1..Len(table) |-> table[i][c]]

\* the record r with field f set to v (added when r has no such field)
With(r, f, v) == [x \in (DOMAIN r) \cup {f} |-> IF x = f THEN v ELSE r[x]]

\* df[c] = cells: assign a column to a table
SetColumn(table, c, cells) ==
    [i \in 1..Len(table) |-> With(table[i], c, cells[i])]

(***************************************************************************)
(* id_to_fips                                                              *)
(***************************************************************************)
state_abbr_to_fips ==
    {
      <<<<"A","L">>, <<"0","1">>>>, <<<<"A","K">>, <<"0","2">>>>, <<<<"A","Z">>, <<"0","4">>>>,
      <<<<"A","R">>, <<"0","5">>>>, <<<<"C","A">>, <<"0","6">>>>, <<<<"C","O">>, <<"0","8">>>>,
      <<<<"C","T">>, <<"0","9">>>>, <<<<"D","E">>, <<"1","0">>>>, <<<<"F","L">>, <<"1","2">>>>,
      <<<<"G","A">>, <<"1","3">>>>, <<<<"H","I">>, <<"1","5">>>>, <<<<"I","D">>, <<"1","6">>>>,
      <<<<"I","L">>, <<"1","7">>>>, <<<<"I","N">>, <<"1","8">>>>, <<<<"I","A">>, <<"1","9">>>>,
      <<<<"K","S">>, <<"2","0">>>>, <<<<"K","Y">>, <<"2","1">>>>, <<<<"L","A">>, <<"2","2">>>>,
      <<<<"M","E">>, <<"2","3">>>>, <<<<"M","D">>, <<"2","4">>>>, <<<<"M","A">>, <<"2","5">>>>,
      <<<<"M","I">>, <<"2","6">>>>, <<<<"M","N">>, <<"2","7">>>>, <<<<"M","S">>, <<"2","8">>>>,
      <<<<"M","O">>, <<"2","9">>>>, <<<<"M","T">>, <<"3","0">>>>, <<<<"N","E">>, <<"3","1">>>>,
      <<<<"N","V">>, <<"3","2">>>>, <<<<"N","H">>, <<"3","3">>>>, <<<<"N","J">>, <<"3","4">>>>,
      <<<<"N","M">>, <<"3","5">>>>, <<<<"N","Y">>, <<"3","6">>>>, <<<<"N","C">>, <<"3","7">>>>,
      <<<<"N","D">>, <<"3","8">>>>, <<<<"O","H">>, <<"3","9">>>>, <<<<"O","K">>, <<"4","0">>>>,
      <<<<"O","R">>, <<"4","1">>>>, <<<<"P","A">>, <<"4","2">>>>, <<<<"R","I">>, <<"4","4">>>>,
      <<<<"S","C">>, <<"4","5">>>>, <<<<"S","D">>, <<"4","6">>>>, <<<<"T","N">>, <<"4","7">>>>,
      <<<<"T","X">>, <<"4","8">>>>, <<<<"U","T">>, <<"4","9">>>>, <<<<"V","T">>, <<"5","0">>>>,
      <<<<"V","A">>, <<"5","1">>>>, <<<<"W","A">>, <<"5","3">>>>, <<<<"W","V">>, <<"5","4">>>>,
      <<<<"W","I">>, <<"5","5">>>>, <<<<"W","Y">>, <<"5","6">>>>
    }

HasKey(map, k) == \E p \in map : p[1] = k

Get(map, k) == (CHOOSE p \in map : p[1] = k)[2]

RECURSIVE Split(_, _)
\* str.split(sep) for a one-character separator
Split(s, sep) ==
    IF \A i \in 1..Len(s) : s[i] # sep
    THEN <<s>>
    ELSE LET i == CHOOSE k \in 1..Len(s) :
                      s[k] = sep /\ \A j \in 1..(k - 1) : s[j] # sep
         IN  <<SubSeq(s, 1, i - 1)>> \o Split(SubSeq(s, i + 1, Len(s)), sep)

RECURSIVE Zeros(_)
Zeros(n) == IF n <= 0 THEN <<>> ELSE <<"0">> \o Zeros(n - 1)

\* a slip that leaves the county code unpadded
zfill_none(s, width) == s

\* str.zfill(width): pads on the left, after a leading sign; never truncates
zfill(s, width) ==
    IF Len(s) >= width THEN s
    ELSE IF Len(s) > 0 /\ s[1] \in {"+", "-"}
         THEN <<s[1]>> \o Zeros(width - Len(s)) \o Tail(s)
         ELSE Zeros(width - Len(s)) \o s

\* the outcome of id_to_fips: the key, or the exception raised
id_to_fips(id) ==
    LET parts == Split(id, "-")
    IN  IF Len(parts) # 2
        THEN [status |-> "ValueError", key |-> <<>>]
        ELSE IF ~HasKey(state_abbr_to_fips, parts[1])
             THEN [status |-> "KeyError", key |-> <<>>]
             ELSE [status |-> "ok",
                   key |-> Get(state_abbr_to_fips, parts[1]) \o zfill(parts[2], 3)]

(***************************************************************************)
(* DataFrame.merge(right, on="fips", how="left")                           *)
(***************************************************************************)
RECURSIVE MergeInner(_, _, _)
\* how="inner": a left row without a match is dropped
MergeInner(left, right, col) ==
    IF left = <<>> THEN <<>>
    ELSE LET l == Head(left)
             m == SelectSeq(right, LAMBDA r : r.fips = l.fips)
         IN  [j \in 1..Len(m) |-> With(l, col, m[j][col])]
             \o MergeInner(Tail(left), right, col)

RECURSIVE MergeLeft(_, _, _)
\* every left row in order, once per right row with its key, or once with a
\* missing value when no right row has its key
MergeLeft(left, right, col) ==
    IF left = <<>> THEN <<>>
    ELSE LET l == Head(left)
             m == SelectSeq(right, LAMBDA r : r.fips = l.fips)
             rows == IF m = <<>>
                     THEN <<With(l, col, NA)>>
                     ELSE [j \in 1..Len(m) |-> With(l, col, m[j][col])]
         IN  rows \o MergeLeft(Tail(left), right, col)

(***************************************************************************)
(* load_census_data                                                        *)
(***************************************************************************)
\* pd.to_numeric(errors='coerce') on one cell of the API response: a cell is
\* <<"digits", n>> (the text of the number n) or <<"null", 0>> (anything else)
to_numeric(x) == IF x[1] = "digits" THEN Num(x[2], 1) ELSE NA

\* Series.replace(0, pd.NA) on one cell
replace_zero(v) == IF v = Num(0, 1) THEN NA ELSE v

\* owner_occupied_units / total_occupied_units (line 38: no replace)
homeownership_rate(owner, occupied) == Div(owner, occupied)

\* (sf_detached + sf_attached) / total_housing_units.replace(0, pd.NA)
sf_ratio(detached, attached, units) ==
    Div(Add(detached, attached), replace_zero(units))

NumericColumns ==
    {"median_household_income", "median_year_built", "total_population",
     "total_occupied_units", "owner_occupied_units", "total_housing_units",
     "sf_detached", "sf_attached"}

\* one row of the frame load_census_data returns
LoadCensusRow(raw) ==
    LET n == [c \in DOMAIN raw |->
                 IF c \in NumericColumns THEN to_numeric(raw[c]) ELSE raw[c]]
        a == With(n, "fips", n.state \o n.county)
        b == With(a, "homeownership_rate",
                  homeownership_rate(n.owner_occupied_units, n.total_occupied_units))
    IN  With(b, "sf_ratio",
             sf_ratio(n.sf_detached, n.sf_attached, n.total_housing_units))

load_census_data(rows) == [i \in 1..Len(rows) |-> LoadCensusRow(rows[i])]

(***************************************************************************)
(* load_weather_data                                                       *)
(***************************************************************************)
\* one CSV as read, keyed and renamed: the table, or the first exception
\* that id_to_fips raises in Series.apply
LoadWeatherTable(csv, col) ==
    LET keys == [i \in 1..Len(csv) |-> id_to_fips(csv[i].ID)]
        bad == {i \in 1..Len(csv) : keys[i].status # "ok"}
    IN  IF bad # {}
        THEN [status |-> keys[CHOOSE i \in bad : \A j \in bad : i <= j].status,
              table |-> <<>>]
        ELSE [status |-> "ok",
              table |-> [i \in 1..Len(csv) |->
                            With([fips |-> keys[i].key], col, csv[i].Value)]]

(***************************************************************************)
(* calculate_scores                                                        *)
(***************************************************************************)
ReferenceYear == 2025

\* the age a slip to the survey year (2021) would give
home_age_survey(year) == Sub(Num(2021, 1), year)

home_age(year) == Sub(Num(ReferenceYear, 1), year)

adj_population(population, ratio) == Mul(population, ratio)

\* a weighted sum in which a missing rank counts as 0 (fillna(0))
RawScoreFillZero(r) ==
    LET z(v) == IF IsNA(v) THEN Num(0, 1) ELSE v
    IN  Add(Add(Add(Add(Add(Add(
            Mul(z(r.rank_home_age), Num(125, 1000)),
            Mul(z(r.rank_avg_precipitation), Num(125, 1000))),
            Mul(z(r.rank_avg_temperature), Num(125, 1000))),
            Mul(z(r.rank_sf_ratio), Num(25, 100))),
            Mul(z(r.rank_income), Num(125, 1000))),
            Mul(z(r.rank_adj_population), Num(50, 100))),
            Mul(z(r.rank_homeownership), Num(5, 100)))

\* a weighted sum whose weights add up to 1.25: homeownership left out
RawScoreNoHomeownership(r) ==
    Add(Add(Add(Add(Add(
        Mul(r.rank_home_age, Num(125, 1000)),
        Mul(r.rank_avg_precipitation, Num(125, 1000))),
        Mul(r.rank_avg_temperature, Num(125, 1000))),
        Mul(r.rank_sf_ratio, Num(25, 100))),
        Mul(r.rank_income, Num(125, 1000))),
        Mul(r.rank_adj_population, Num(50, 100)))

\* pest_sales_score_raw of one row (lines 88-96)
RawScore(r) ==
    Add(Add(Add(Add(Add(Add(
        Mul(r.rank_home_age, Num(125, 1000)),
        Mul(r.rank_avg_precipitation, Num(125, 1000))),
        Mul(r.rank_avg_temperature, Num(125, 1000))),
        Mul(r.rank_sf_ratio, Num(25, 100))),
        Mul(r.rank_income, Num(125, 1000))),
        Mul(r.rank_adj_population, Num(50, 100))),
        Mul(r.rank_homeownership, Num(5, 100)))

\* the non-missing cells of a column
Valid(col) == {col[i] : i \in {j \in 1..Len(col) : ~IsNA(col[j])}}

\* np.nanmin / np.nanmax of a column with a non-missing cell
NanMin(col) == CHOOSE v \in Valid(col) : \A w \in Valid(col) : Leq(v, w)

NanMax(col) == CHOOSE v \in Valid(col) : \A w \in Valid(col) : Leq(w, v)

\* sklearn's _handle_zeros_in_scale: a zero range is replaced by 1
HandleZerosInScale(range) == IF range = Num(0, 1) THEN Num(1, 1) ELSE range

\* X * scale_ + min_ with scale_ = 1 / range and min_ = 0 - data_min * scale_
MinMaxTransform(col, lo, range) ==
    LET scale == Div(Num(1, 1), range)
        min_ == Sub(Num(0, 1), Mul(lo, scale))
    IN  [i \in 1..Len(col) |-> Add(Mul(col[i], scale), min_)]

\* a rescale that sends a zero-variance column to the midpoint 0.5
MinMaxScaleMidpoint(col) ==
    IF Valid(col) = {} THEN [i \in 1..Len(col) |-> NA]
    ELSE IF NanMin(col) = NanMax(col)
         THEN [i \in 1..Len(col) |-> IF IsNA(col[i]) THEN NA ELSE Num(1, 2)]
         ELSE MinMaxTransform(col, NanMin(col), Sub(NanMax(col), NanMin(col)))

\* a rescale that divides by the maximum only
MinMaxScaleByMax(col) ==
    IF Valid(col) = {} THEN [i \in 1..Len(col) |-> NA]
    ELSE [i \in 1..Len(col) |-> Mul(col[i], Div(Num(1, 1), NanMax(col)))]

\* MinMaxScaler().fit_transform on one column: NaN is ignored by fit and
\* kept by transform; an all-NaN column stays NaN
MinMaxScale(col) ==
    IF Valid(col) = {} THEN [i \in 1..Len(col) |-> NA]
    ELSE MinMaxTransform(col, NanMin(col),
                         HandleZerosInScale(Sub(NanMax(col), NanMin(col))))

\* df[target] = df[source].rank(pct=True)
RankInto(table, target, source) ==
    SetColumn(table, target, RankPct(Column(table, source)))

calculate_scores(d) ==
    LET d1 == SetColumn(d, "home_age",
                  [i \in 1..Len(d) |-> home_age(d[i].median_year_built)])
        d2 == SetColumn(d1, "adj_population",
                  [i \in 1..Len(d) |->
                      adj_population(d1[i].total_population, d1[i].sf_ratio)])
        r1 == RankInto(d2, "rank_income", "median_household_income")
        r2 == RankInto(r1, "rank_home_age", "home_age")
        r3 == RankInto(r2, "rank_population", "total_population")
        r4 == RankInto(r3, "rank_adj_population", "adj_population")
        r5 == RankInto(r4, "rank_homeownership", "homeownership_rate")
        r6 == RankInto(r5, "rank_avg_precipitation", "avg_precipitation")
        r7 == RankInto(r6, "rank_avg_temperature", "avg_temperature")
        r8 == RankInto(r7, "rank_sf_ratio", "sf_ratio")
        s1 == SetColumn(r8, "pest_sales_score_raw",
                  [i \in 1..Len(d) |-> RawScore(r8[i])])
    IN  SetColumn(s1, "pest_sales_score",
                  MinMaxScale(Column(s1, "pest_sales_score_raw")))

(***************************************************************************)
(* main: the merges, the scoring and the state filter                      *)
(***************************************************************************)
state_fips_to_name ==
    {
      <<<<"0","1">>, "Alabama">>, <<<<"0","2">>, "Alaska">>, <<<<"0","4">>, "Arizona">>,
      <<<<"0","5">>, "Arkansas">>, <<<<"0","6">>, "California">>, <<<<"0","8">>, "Colorado">>,
      <<<<"0","9">>, "Connecticut">>, <<<<"1","0">>, "Delaware">>, <<<<"1","2">>, "Florida">>,
      <<<<"1","3">>, "Georgia">>, <<<<"1","5">>, "Hawaii">>, <<<<"1","6">>, "Idaho">>,
      <<<<"1","7">>, "Illinois">>, <<<<"1","8">>, "Indiana">>, <<<<"1","9">>, "Iowa">>,
      <<<<"2","0">>, "Kansas">>, <<<<"2","1">>, "Kentucky">>, <<<<"2","2">>, "Louisiana">>,
      <<<<"2","3">>, "Maine">>, <<<<"2","4">>, "Maryland">>, <<<<"2","5">>, "Massachusetts">>,
      <<<<"2","6">>, "Michigan">>, <<<<"2","7">>, "Minnesota">>, <<<<"2","8">>, "Mississippi">>,
      <<<<"2","9">>, "Missouri">>, <<<<"3","0">>, "Montana">>, <<<<"3","1">>, "Nebraska">>,
      <<<<"3","2">>, "Nevada">>, <<<<"3","3">>, "New Hampshire">>, <<<<"3","4">>, "New Jersey">>,
      <<<<"3","5">>, "New Mexico">>, <<<<"3","6">>, "New York">>, <<<<"3","7">>, "North Carolina">>,
      <<<<"3","8">>, "North Dakota">>, <<<<"3","9">>, "Ohio">>, <<<<"4","0">>, "Oklahoma">>,
      <<<<"4","1">>, "Oregon">>, <<<<"4","2">>, "Pennsylvania">>, <<<<"4","4">>, "Rhode Island">>,
      <<<<"4","5">>, "South Carolina">>, <<<<"4","6">>, "South Dakota">>, <<<<"4","7">>, "Tennessee">>,
      <<<<"4","8">>, "Texas">>, <<<<"4","9">>, "Utah">>, <<<<"5","0">>, "Vermont">>,
      <<<<"5","1">>, "Virginia">>, <<<<"5","3">>, "Washington">>, <<<<"5","4">>, "West Virginia">>,
      <<<<"5","5">>, "Wisconsin">>, <<<<"5","6">>, "Wyoming">>
    }

\* df.merge(precip, on="fips", how="left").merge(temp, on="fips", how="left")
merge_weather(c, p, t) ==
    MergeLeft(MergeLeft(c, p, "avg_precipitation"), t, "avg_temperature")

\* df['state_name'] = df['state'].map(state_fips_to_name); "" stands for NaN
AddStateName(d) ==
    SetColumn(d, "state_name",
        [i \in 1..Len(d) |->
            IF HasKey(state_fips_to_name, d[i].state)
            THEN Get(state_fips_to_name, d[i].state) ELSE ""])

\* the frame main filters: merged, scored and named, computed over all rows
ScoredFrame(c, p, t) == AddStateName(calculate_scores(merge_weather(c, p, t)))

\* ['All States'] + sorted(df['state_name'].dropna().unique().tolist())
state_options(d) ==
    {"All States"} \cup {d[i].state_name : i \in {j \in 1..Len(d) : d[j].state_name # ""}}

\* the rows of d named s
RowsOfState(d, s) == SelectSeq(d, LAMBDA r : r.state_name = s)

\* a filter applied before scoring: the rows of the state, ranked and scaled
\* among themselves
FilterThenScore(d, s) ==
    IF s # "All States" THEN AddStateName(calculate_scores(RowsOfState(d, s))) ELSE d

\* filtered_df (lines 154-157)
FilterByState(d, s) ==
    IF s # "All States" THEN RowsOfState(d, s) ELSE d

(***************************************************************************)
(* Inputs: the census response and the two weather CSV files.              *)
(***************************************************************************)
S01 == <<"0","1">>

S48 == <<"4","8">>

S56 == <<"5","6">>

C001 == <<"0","0","1">>

C003 == <<"0","0","3">>

C045 == <<"0","4","5">>

IDAL001 == <<"A","L","-","0","0","1">>

IDTX1 == <<"T","X","-","1">>

IDAL3 == <<"A","L","-","3">>

IDWY45 == <<"W","Y","-","4","5">>

IDWY7 == <<"W","Y","-","7">>

IDDC001 == <<"D","C","-","0","0","1">>

\* the counties of a response, in order, each with its NOAA weather ID
CountyKeys ==
    <<[NAME |-> "Autauga County, Alabama", state |-> S01, county |-> C001, ID |-> IDAL001],
      [NAME |-> "Anderson County, Texas", state |-> S48, county |-> C001, ID |-> IDTX1],
      [NAME |-> "Baldwin County, Alabama", state |-> S01, county |-> C003, ID |-> IDAL3],
      [NAME |-> "Weston County, Wyoming", state |-> S56, county |-> C045, ID |-> IDWY45]>>

\* the figures of a county: those of county A or county B of the
\* end-to-end scenario
Profiles == {"A", "B"}

Figure(p, a, b) == IF p = "A" THEN a ELSE b

\* what may be wrong with a county's data: at most one thing per county
Defects ==
    {"none", "income_null", "year_null", "population_null", "occupied_zero",
     "occupied_zero_owner_positive", "units_zero", "no_precip_row", "no_temp_row"}

\* the weather files as a whole
WeatherModes == {"full", "both_empty", "unmatched_row", "unknown_region"}

Digits(n) == <<"digits", n>>

Null == <<"null", 0>>

\* the response row of county k with the figures of profile p and defect d
ApiRow(k, p, d) ==
    [NAME |-> CountyKeys[k].NAME,
     state |-> CountyKeys[k].state,
     county |-> CountyKeys[k].county,
     median_household_income |->
         IF d = "income_null" THEN Null ELSE Digits(Figure(p, 50000, 80000)),
     median_year_built |->
         IF d = "year_null" THEN Null ELSE Digits(Figure(p, 1990, 2010)),
     total_population |->
         IF d = "population_null" THEN Null ELSE Digits(Figure(p, 1000, 2000)),
     total_occupied_units |->
         IF d \in {"occupied_zero", "occupied_zero_owner_positive"}
         THEN Digits(0) ELSE Digits(Figure(p, 400, 800)),
     owner_occupied_units |->
         IF d = "occupied_zero" THEN Digits(0) ELSE Digits(Figure(p, 200, 600)),
     total_housing_units |->
         IF d = "units_zero" THEN Digits(0) ELSE Digits(Figure(p, 500, 900)),
     sf_detached |-> Digits(Figure(p, 300, 700)),
     sf_attached |-> Digits(0)]

\* the rows of a weather file: one per county unless the county lacks it,
\* then the row the mode adds
WeatherCsv(choice, mode, missing, a, b) ==
    LET all == [k \in 1..Len(choice) |->
                   [ID |-> CountyKeys[k].ID,
                    Value |-> Num(Figure(choice[k][1], a, b), 1),
                    keep |-> choice[k][2] # missing]]
        kept == SelectSeq(all, LAMBDA r : r.keep)
        rows == [i \in 1..Len(kept) |-> [ID |-> kept[i].ID, Value |-> kept[i].Value]]
    IN  IF mode = "both_empty" THEN <<>>
        ELSE IF mode = "unmatched_row" THEN rows \o <<[ID |-> IDWY7, Value |-> Num(a, 1)]>>
        ELSE IF mode = "unknown_region" THEN rows \o <<[ID |-> IDDC001, Value |-> Num(a, 1)]>>
        ELSE rows

SeqsUpTo(S, n) == UNION {[1..m -> S] : m \in 0..n}

(***************************************************************************)
(* The run of main, stage by stage, and its reruns on a new selection.     *)
(***************************************************************************)
Idle ==
    /\ column = <<>> /\ ranked = <<>> /\ id_str = <<>> /\ fips_out = <<>>

Init ==
    /\ pc = "start"
    /\ \E n \in 1..MaxRows : \E choice \in [1..n -> Profiles \X Defects] :
       \E mode \in WeatherModes :
          /\ api_rows = [k \in 1..n |-> ApiRow(k, choice[k][1], choice[k][2])]
          /\ precip_csv = WeatherCsv(choice, mode, "no_precip_row", 30, 45)
          /\ temp_csv = WeatherCsv(choice, mode, "no_temp_row", 60, 75)
    /\ census = <<>> /\ precip = <<>> /\ temp = <<>> /\ df = <<>>
    /\ selected = "" /\ filtered = <<>>
    /\ Idle

\* df = load_census_data(API_KEY)
LoadCensus ==
    /\ pc = "start"
    /\ census' = load_census_data(api_rows)
    /\ pc' = "census_loaded"
    /\ UNCHANGED <<api_rows, precip_csv, temp_csv, precip, temp, df, selected,
                   filtered, column, ranked, id_str, fips_out>>

\* precip, temp = load_weather_data(): an exception of id_to_fips ends the run
LoadWeather ==
    /\ pc = "census_loaded"
    /\ LET p == LoadWeatherTable(precip_csv, "avg_precipitation")
           t == LoadWeatherTable(temp_csv, "avg_temperature")
       IN  IF p.status = "ok" /\ t.status = "ok"
           THEN /\ precip' = p.table
                /\ temp' = t.table
                /\ pc' = "weather_loaded"
           ELSE /\ pc' = "error"
                /\ UNCHANGED <<precip, temp>>
    /\ UNCHANGED <<api_rows, precip_csv, temp_csv, census, df, selected,
                   filtered, column, ranked, id_str, fips_out>>

\* the two merges of lines 126-127
MergeWeather ==
    /\ pc = "weather_loaded"
    /\ df' = merge_weather(census, precip, temp)
    /\ pc' = "merged"
    /\ UNCHANGED <<api_rows, precip_csv, temp_csv, census, precip, temp, selected,
                   filtered, column, ranked, id_str, fips_out>>

\* df = calculate_scores(df)
CalculateScores ==
    /\ pc = "merged"
    /\ df' = calculate_scores(df)
    /\ pc' = "scored"
    /\ UNCHANGED <<api_rows, precip_csv, temp_csv, census, precip, temp, selected,
                   filtered, column, ranked, id_str, fips_out>>

\* the first rendering: the selectbox starts at index 0, 'All States'
Show ==
    /\ pc = "scored"
    /\ df' = AddStateName(df)
    /\ selected' = "All States"
    /\ filtered' = FilterByState(df', selected')
    /\ pc' = "shown"
    /\ UNCHANGED <<api_rows, precip_csv, temp_csv, census, precip, temp,
                   column, ranked, id_str, fips_out>>

\* a selection reruns main from the top with the cached loads
SelectState ==
    /\ pc = "shown"
    /\ \E s \in state_options(df) :
          /\ s # selected
          /\ selected' = s
          /\ df' = ScoredFrame(census, precip, temp)
          /\ filtered' = FilterByState(df', s)
    /\ UNCHANGED <<pc, api_rows, precip_csv, temp_csv, census, precip, temp,
                   column, ranked, id_str, fips_out>>

Next ==
    \/ LoadCensus
    \/ LoadWeather
    \/ MergeWeather
    \/ CalculateScores
    \/ Show
    \/ SelectState

Spec == Init /\ [][Next]_vars

(***************************************************************************)
(* The rank of one column, on its own.                                     *)
(***************************************************************************)
RankCells == {NA, INF} \cup {Num(10 * v, 1) : v \in 1..MaxVal}

InitRank ==
    /\ pc = "rank_input"
    /\ column \in SeqsUpTo(RankCells, MaxLen)
    /\ ranked = <<>>
    /\ api_rows = <<>> /\ precip_csv = <<>> /\ temp_csv = <<>>
    /\ census = <<>> /\ precip = <<>> /\ temp = <<>> /\ df = <<>>
    /\ selected = "" /\ filtered = <<>>
    /\ id_str = <<>> /\ fips_out = <<>>

RankColumn ==
    /\ pc = "rank_input"
    /\ ranked' = RankPct(column)
    /\ pc' = "rank_done"
    /\ UNCHANGED <<api_rows, precip_csv, temp_csv, census, precip, temp, df,
                   selected, filtered, column, id_str, fips_out>>

NextRank == RankColumn

SpecRank == InitRank /\ [][NextRank]_vars

(***************************************************************************)
(* id_to_fips on one weather ID, on its own.                               *)
(***************************************************************************)
KnownAbbrs == {p[1] : p \in state_abbr_to_fips}

Abbrs == KnownAbbrs \cup {<<"D","C">>, <<"P","R">>, <<"a","l">>}

CodeChars == {"0", "7", "+"}

IdStrings ==
    LET codes == SeqsUpTo(CodeChars, MaxCodeLen)
    IN  {a \o <<"-">> \o c : a \in Abbrs, c \in codes}
        \cup {a \o c : a \in Abbrs, c \in codes}
        \cup {a \o <<"-">> \o c \o <<"-">> : a \in Abbrs, c \in codes}

InitFips ==
    /\ pc = "fips_input"
    /\ id_str \in IdStrings
    /\ fips_out = <<>>
    /\ api_rows = <<>> /\ precip_csv = <<>> /\ temp_csv = <<>>
    /\ census = <<>> /\ precip = <<>> /\ temp = <<>> /\ df = <<>>
    /\ selected = "" /\ filtered = <<>>
    /\ column = <<>> /\ ranked = <<>>

Normalize ==
    /\ pc = "fips_input"
    /\ fips_out' = id_to_fips(id_str)
    /\ pc' = "fips_done"
    /\ UNCHANGED <<api_rows, precip_csv, temp_csv, census, precip, temp, df,
                   selected, filtered, column, ranked, id_str>>

NextFips == Normalize

SpecFips == InitFips /\ [][NextFips]_vars

(***************************************************************************)
(* The two merges on tables of keys, on their own.                         *)
(***************************************************************************)
MergeKeys == {CountyKeys[k].state \o CountyKeys[k].county : k \in 1..3}

\* a primary table: row i is named after county i
KeyTables ==
    {[i \in 1..Len(k) |-> [fips |-> k[i], NAME |-> CountyKeys[i].NAME]] :
        k \in SeqsUpTo(MergeKeys, MaxRows)}

\* a weather table: row i carries the value i
ValueTables(col) ==
    {[i \in 1..Len(k) |-> With([fips |-> k[i]], col, Num(i, 1))] :
        k \in SeqsUpTo(MergeKeys, MaxWeatherRows)}

InitMerge ==
    /\ pc = "weather_loaded"
    /\ census \in KeyTables
    /\ precip \in ValueTables("avg_precipitation")
    /\ temp \in ValueTables("avg_temperature")
    /\ df = <<>>
    /\ api_rows = <<>> /\ precip_csv = <<>> /\ temp_csv = <<>>
    /\ selected = "" /\ filtered = <<>>
    /\ Idle

NextMerge == MergeWeather

SpecMerge == InitMerge /\ [][NextMerge]_vars

(***************************************************************************)
(* Properties.                                                             *)
(***************************************************************************)
\* the frame has been scored
Scored == pc \in {"scored", "shown"}

\* the rows of df with a raw score
ScoredRows == {i \in 1..Len(df) : ~IsNA(df[i].pest_sales_score_raw)}

RankColumns ==
    {"rank_income", "rank_home_age", "rank_population", "rank_adj_population",
     "rank_homeownership", "rank_avg_precipitation", "rank_avg_temperature",
     "rank_sf_ratio"}

\* C1: after calculate_scores, when two records have different non-missing
\* raw scores, every record with a raw score has a final score in [0,1], a
\* record with the least raw score has final score 0 and a record with the
\* greatest raw score has final score 1.
C1_ScoreSpansUnitInterval ==
    (Scored /\ \E i, j \in ScoredRows :
                   df[i].pest_sales_score_raw # df[j].pest_sales_score_raw)
    => \A i \in ScoredRows :
          LET raw == df[i].pest_sales_score_raw
              score == df[i].pest_sales_score
          IN  /\ IsNum(score)
              /\ Leq(Num(0, 1), score) /\ Leq(score, Num(1, 1))
              /\ (\A j \in ScoredRows : Leq(raw, df[j].pest_sales_score_raw))
                    => score = Num(0, 1)
              /\ (\A j \in ScoredRows : Leq(df[j].pest_sales_score_raw, raw))
                    => score = Num(1, 1)

\* two records with different raw scores, one scaled to 0 and one to 1
C1_Witness ==
    /\ Scored
    /\ \E i, j \in ScoredRows :
          /\ Less(df[i].pest_sales_score_raw, df[j].pest_sales_score_raw)
          /\ df[i].pest_sales_score = Num(0, 1)
          /\ df[j].pest_sales_score = Num(1, 1)

\* all raw scores of the frame are equal, and there is one
ZeroVariance ==
    /\ ScoredRows # {}
    /\ \A i, j \in ScoredRows :
          df[i].pest_sales_score_raw = df[j].pest_sales_score_raw

\* C2 as stated: when all non-missing raw scores are equal, every such
\* record gets the final score 0.5.
C2_ZeroVarianceGivesMidpoint ==
    (Scored /\ ZeroVariance)
    => \A i \in ScoredRows : df[i].pest_sales_score = Num(1, 2)

\* C2 amended: when all non-missing raw scores are equal (a single scored
\* record included), every such record gets the final score 0, a finite
\* number: nothing is divided by zero.
C2_ZeroVarianceGivesZero ==
    (Scored /\ ZeroVariance)
    => \A i \in ScoredRows : df[i].pest_sales_score = Num(0, 1)

\* two records with the same raw score, both scaled
C2_Witness ==
    /\ Scored /\ ZeroVariance
    /\ Cardinality(ScoredRows) >= 2
    /\ \A i \in ScoredRows : IsNum(df[i].pest_sales_score)

\* C3: a record with any of its eight percentile ranks missing has a missing
\* raw score and a missing final score (the missing rank is not counted as 0).
C3_MissingRankPropagates ==
    Scored
    => \A i \in 1..Len(df) :
          (\E c \in RankColumns : IsNA(df[i][c]))
          => /\ IsNA(df[i].pest_sales_score_raw)
             /\ IsNA(df[i].pest_sales_score)

\* a record that lacks one rank only, next to a record that is scored
C3_Witness ==
    /\ Scored
    /\ \E i, j \in 1..Len(df) :
          /\ IsNA(df[i].rank_income)
          /\ \A c \in RankColumns \ {"rank_income"} : IsNum(df[i][c])
          /\ IsNA(df[i].pest_sales_score_raw)
          /\ IsNA(df[i].pest_sales_score)
          /\ IsNum(df[j].pest_sales_score)

\* the weights of the specification, in thousandths
Weights ==
    <<<<"rank_home_age", 125>>, <<"rank_avg_precipitation", 125>>,
      <<"rank_avg_temperature", 125>>, <<"rank_sf_ratio", 250>>,
      <<"rank_income", 125>>, <<"rank_adj_population", 500>>,
      <<"rank_homeownership", 50>>>>

RECURSIVE WeightTotal(_)
WeightTotal(w) == IF w = <<>> THEN 0 ELSE Head(w)[2] + WeightTotal(Tail(w))

RECURSIVE WeightedSum(_, _)
\* the sum over w of weight * rank, in thousandths, for a row without a
\* missing rank
WeightedSum(r, w) ==
    IF w = <<>> THEN Num(0, 1)
    ELSE LET rank == r[Head(w)[1]]
             rest == WeightedSum(r, Tail(w))
         IN  Num(Head(w)[2] * rank[2] * rest[3] + rest[2] * rank[3],
                 rank[3] * rest[3])

\* r's raw score is the weighted sum of its ranks
IsWeightedSum(r) ==
    IF \E k \in 1..Len(Weights) : IsNA(r[Weights[k][1]])
    THEN IsNA(r.pest_sales_score_raw)
    ELSE Mul(r.pest_sales_score_raw, Num(1000, 1)) = WeightedSum(r, Weights)

\* C4 as stated: every raw score is the weighted sum of the ranks with the
\* seven fixed weights and, the weights summing to 1.25, no raw score
\* exceeds 1.25.
C4_RawScoreAtMostFiveQuarters ==
    Scored
    => \A i \in 1..Len(df) :
          /\ IsWeightedSum(df[i])
          /\ i \in ScoredRows => Leq(df[i].pest_sales_score_raw, Num(125, 100))

\* C4 amended: every raw score is the weighted sum of the ranks with the
\* seven fixed weights; the weights sum to 1.30, and no raw score exceeds 1.30.
C4_RawScoreAtMostThirteenTenths ==
    Scored
    => \A i \in 1..Len(df) :
          /\ IsWeightedSum(df[i])
          /\ WeightTotal(Weights) = 1300
          /\ i \in ScoredRows => Leq(df[i].pest_sales_score_raw, Num(130, 100))

\* a record at the top of every column, whose raw score is 1.30
C4_Witness ==
    /\ Scored
    /\ \E i \in ScoredRows :
          /\ df[i].pest_sales_score_raw = Num(13, 10)
          /\ \A c \in RankColumns : df[i][c] = Num(1, 1)

\* the census frame has been loaded
CensusLoaded == pc \notin {"start"} /\ census # <<>>

\* C5: a ratio with a zero denominator is missing: total_occupied_units = 0
\* gives a missing homeownership_rate whatever owner_occupied_units is, and
\* total_housing_units = 0 gives a missing sf_ratio and adj_population.
C5_ZeroDenominatorIsMissing ==
    /\ CensusLoaded
       => \A i \in 1..Len(census) :
             /\ census[i].total_occupied_units = Num(0, 1)
                   => IsNA(census[i].homeownership_rate)
             /\ census[i].total_housing_units = Num(0, 1)
                   => IsNA(census[i].sf_ratio)
    /\ Scored
       => \A i \in 1..Len(df) :
             df[i].total_housing_units = Num(0, 1) => IsNA(df[i].adj_population)

\* the percentile rank of cell i by the closed form of the claim
ClosedFormRank(col, i) ==
    LET valid == {j \in 1..Len(col) : ~IsNA(col[j])}
        below == Cardinality({j \in valid : Less(col[j], col[i])})
        equal == Cardinality({j \in valid : col[j] = col[i]})
    IN  Num(2 * below + equal + 1, 2 * Cardinality(valid))

\* C6: the percentile rank of a non-missing value v is (values below v +
\* (values equal to v + 1)/2) / N over the N non-missing values of the
\* column; [10,10,20] ranks to [0.5,0.5,1.0]; N distinct values rank to a
\* permutation of 1/N..1; a missing input gives a missing output at its
\* position and leaves the other ranks as they are without it.
C6_AverageRank ==
    pc = "rank_done"
    => LET valid == {j \in 1..Len(column) : ~IsNA(column[j])}
           n == Cardinality(valid)
           kept == SelectSeq(column, LAMBDA v : ~IsNA(v))
       IN  /\ Len(ranked) = Len(column)
           /\ \A i \in 1..Len(column) :
                 IF IsNA(column[i]) THEN IsNA(ranked[i])
                 ELSE ranked[i] = ClosedFormRank(column, i)
           /\ column = <<Num(10, 1), Num(10, 1), Num(20, 1)>>
                 => ranked = <<Num(1, 2), Num(1, 2), Num(1, 1)>>
           /\ (\A i, j \in valid : i # j => column[i] # column[j])
                 => {ranked[i] : i \in valid} = {Num(k, n) : k \in 1..n}
           /\ SelectSeq(ranked, LAMBDA v : ~IsNA(v)) =
                 [i \in 1..Len(kept) |-> ClosedFormRank(kept, i)]

\* a tie, a larger value and a missing cell ranked together
C6_Witness ==
    /\ pc = "rank_done"
    /\ \E i, j, k, m \in 1..Len(column) :
          /\ i # j /\ column[i] = column[j] /\ IsNum(column[i])
          /\ Less(column[i], column[k])
          /\ IsNA(column[m]) /\ IsNA(ranked[m])
          /\ ranked[i] = Num(1, 2) /\ ranked[j] = Num(1, 2)
          /\ ranked[k] = Num(1, 1)

\* no two rows of the table have the same key
UniqueKeys(table) ==
    \A i, j \in 1..Len(table) : i # j => table[i].fips # table[j].fips

\* C7: with unique keys in the demographic table and in each weather table,
\* the joined table has the demographic table's keys, each once and in
\* place: a demographic row without a weather row keeps missing weather
\* values, a weather row without a demographic row adds nothing, and empty
\* weather tables leave the demographic rows as they were with all-missing
\* weather columns.
C7_LeftJoinKeepsPrimaryKeys ==
    (pc = "merged" /\ UniqueKeys(census) /\ UniqueKeys(precip) /\ UniqueKeys(temp))
    => /\ Len(df) = Len(census)
       /\ \A i \in 1..Len(census) :
             /\ df[i].fips = census[i].fips
             /\ \A f \in DOMAIN census[i] : df[i][f] = census[i][f]
             /\ DOMAIN df[i] = (DOMAIN census[i]) \cup {"avg_precipitation", "avg_temperature"}
             /\ IF \E k \in 1..Len(precip) : precip[k].fips = census[i].fips
                THEN \E k \in 1..Len(precip) :
                        /\ precip[k].fips = census[i].fips
                        /\ df[i].avg_precipitation = precip[k].avg_precipitation
                ELSE IsNA(df[i].avg_precipitation)
             /\ IF \E k \in 1..Len(temp) : temp[k].fips = census[i].fips
                THEN \E k \in 1..Len(temp) :
                        /\ temp[k].fips = census[i].fips
                        /\ df[i].avg_temperature = temp[k].avg_temperature
                ELSE IsNA(df[i].avg_temperature)

\* two demographic rows, one matched and one not, and a weather row whose
\* key no demographic row has
C7_Witness ==
    /\ pc = "merged" /\ UniqueKeys(census) /\ UniqueKeys(precip) /\ UniqueKeys(temp)
    /\ Len(df) = 2
    /\ \E i, j \in 1..Len(df) :
          /\ IsNum(df[i].avg_precipitation)
          /\ IsNA(df[j].avg_precipitation)
    /\ \E k \in 1..Len(precip) : \A i \in 1..Len(census) : precip[k].fips # census[i].fips
    /\ temp = <<>>
    /\ \A i \in 1..Len(df) : IsNA(df[i].avg_temperature)

\* id_str is abbr-local with one separator, local made of digits
IsRegionLocal(abbr, local) ==
    /\ id_str = abbr \o <<"-">> \o local
    /\ \A i \in 1..Len(local) : local[i] \in {"0", "7"}

\* C8 as stated: for an id whose region abbreviation is in the known
\* mapping, id_to_fips returns a 5-character key (the 2-character region
\* code, then the local code zero-padded to 3 digits); for an abbreviation
\* outside the mapping it fails with the unknown-region error (the KeyError
\* of the dictionary lookup) and returns no key.
C8_FiveCharacterKey ==
    pc = "fips_done"
    => \A abbr \in Abbrs : \A local \in SeqsUpTo({"0", "7"}, MaxCodeLen) :
          IsRegionLocal(abbr, local)
          => IF abbr \in KnownAbbrs
             THEN /\ fips_out.status = "ok"
                  /\ Len(fips_out.key) = 5
                  /\ SubSeq(fips_out.key, 1, 2) = Get(state_abbr_to_fips, abbr)
             ELSE /\ fips_out.status = "KeyError"
                  /\ fips_out.key = <<>>

\* C8 amended: for an id abbr-local (one separator, local made of digits)
\* with abbr in the known mapping, id_to_fips returns the 2-character region
\* code followed by local left-padded with zeros to 3 characters and never
\* truncated: 5 characters when local has at most 3 digits, 2 + len(local)
\* otherwise; for an abbr outside the mapping it raises KeyError and returns
\* no key.
C8_PaddedKeyOrKeyError ==
    pc = "fips_done"
    => \A abbr \in Abbrs : \A local \in SeqsUpTo({"0", "7"}, MaxCodeLen) :
          IsRegionLocal(abbr, local)
          => IF abbr \in KnownAbbrs
             THEN LET key == fips_out.key
                      n == Len(key)
                  IN  /\ fips_out.status = "ok"
                      /\ n = 2 + (IF Len(local) > 3 THEN Len(local) ELSE 3)
                      /\ Len(local) <= 3 => n = 5
                      /\ SubSeq(key, 1, 2) = Get(state_abbr_to_fips, abbr)
                      /\ SubSeq(key, n - Len(local) + 1, n) = local
                      /\ \A i \in 3..(n - Len(local)) : key[i] = "0"
             ELSE /\ fips_out.status = "KeyError"
                  /\ fips_out.key = <<>>

\* a one-digit local code padded to the 5-character key 48007
C8_Witness ==
    /\ pc = "fips_done"
    /\ id_str = <<"T","X","-","7">>
    /\ fips_out.status = "ok"
    /\ fips_out.key = <<"4","8","0","0","7">>

ScoreColumns == RankColumns \cup {"pest_sales_score_raw", "pest_sales_score"}

\* C9: ranks and scores are computed once over the full joined dataset,
\* before the state filter: for every county and every selection ('All
\* States' included) the ranks and the score of the county in the filtered
\* view are those computed over all counties, the view holds the counties
\* of the selection, and no selection changes a rank or score of df.
C9_FilterAfterScoring ==
    pc = "shown"
    => LET full == calculate_scores(merge_weather(census, precip, temp))
       IN  /\ Len(df) = Len(full)
           /\ \A j \in 1..Len(df) : \A c \in ScoreColumns : df[j][c] = full[j][c]
           /\ \A i \in 1..Len(filtered) :
                 \E j \in 1..Len(full) :
                    /\ full[j].fips = filtered[i].fips
                    /\ \A c \in ScoreColumns : filtered[i][c] = full[j][c]
           /\ {filtered[i].fips : i \in 1..Len(filtered)} =
                 {df[j].fips : j \in {k \in 1..Len(df) :
                      selected = "All States" \/ df[k].state_name = selected}}

\* one state selected out of two, whose only county has the top score of
\* the full dataset
C9_Witness ==
    /\ pc = "shown"
    /\ selected # "All States"
    /\ Len(filtered) = 1 /\ Len(df) = 2
    /\ filtered[1].pest_sales_score = Num(1, 1)

\* counties A and B of the end-to-end scenario, without weather rows
ScenarioAB ==
    /\ api_rows = <<ApiRow(1, "A", "none"), ApiRow(2, "B", "none")>>
    /\ precip_csv = <<>>
    /\ temp_csv = <<>>

\* home_age, sf_ratio and the demographic ranks of the scenario
ScenarioIndicators ==
    /\ Len(df) = 2
    /\ df[1].home_age = Num(35, 1) /\ df[2].home_age = Num(15, 1)
    /\ df[1].sf_ratio = Num(3, 5) /\ df[2].sf_ratio = Num(7, 9)
    /\ \A i \in 1..2 :
          \A c \in RankColumns \ {"rank_avg_precipitation", "rank_avg_temperature"} :
             df[i][c] \in {Num(1, 2), Num(1, 1)}
    /\ df[1].rank_home_age = Num(1, 1) /\ df[2].rank_home_age = Num(1, 2)
    /\ df[1].rank_income = Num(1, 2) /\ df[2].rank_income = Num(1, 1)
    /\ df[1].rank_sf_ratio = Num(1, 2) /\ df[2].rank_sf_ratio = Num(1, 1)

\* C10 as stated: in the two-county scenario without weather rows, home_age
\* is 35 and 15, sf_ratio 3/5 and 7/9, the demographic ranks are in
\* {0.5, 1.0}, and the final scores are 0 and 1 or both 0.5.
C10_ScenarioScoresZeroOneOrHalf ==
    (Scored /\ ScenarioAB)
    => /\ ScenarioIndicators
       /\ \/ {df[1].pest_sales_score, df[2].pest_sales_score} = {Num(0, 1), Num(1, 1)}
          \/ /\ df[1].pest_sales_score = Num(1, 2)
             /\ df[2].pest_sales_score = Num(1, 2)

\* C10 amended: in the two-county scenario without weather rows, home_age is
\* 35 and 15, sf_ratio 3/5 and 7/9, the demographic ranks are in {0.5, 1.0},
\* and both raw scores and both final scores are missing, since both
\* counties lack the precipitation and temperature ranks.
C10_ScenarioScoresMissing ==
    (Scored /\ ScenarioAB)
    => /\ ScenarioIndicators
       /\ \A i \in 1..2 :
             /\ IsNA(df[i].rank_avg_precipitation)
             /\ IsNA(df[i].rank_avg_temperature)
             /\ IsNA(df[i].pest_sales_score_raw)
             /\ IsNA(df[i].pest_sales_score)

\* the scenario, scored and shown
C10_Witness ==
    /\ pc = "shown" /\ ScenarioAB
    /\ Len(filtered) = 2
    /\ IsNA(filtered[1].pest_sales_score)

====
